---- MODULE Spec2Model ----
(***************************************************************************)
(* Model of movie_analyzer_.py: a frozen BERT encoder with a GRU head,     *)
(* trained by an epoch loop that keeps the best checkpoint in 'model.pt',  *)
(* restores it, evaluates on the test set and then serves                  *)
(* predict_sentiment calls.                                                *)
(*                                                                         *)
(* The numeric content of the network (logits, losses of a batch,          *)
(* parameter tensors) comes from PyTorch and the data; it is drawn from    *)
(* small sets.  Everything the script itself decides (order of the steps,  *)
(* modes, gradient flags, checkpoint policy, truncation) is modelled as    *)
(* written.                                                                *)
(***************************************************************************)
EXTENDS Integers, Sequences, FiniteSets, TLC

(* ------------------------------- bounds -------------------------------- *)
MaxEpochs == 2      \* N_EPOCHS ranges over 1..MaxEpochs
MaxTrainBatches == 2  \* len(train_iterator) ranges over 1..MaxTrainBatches
MaxValidBatches == 1  \* len(valid_iterator) and len(test_iterator) range over 1..MaxValidBatches
MaxLoss == 1        \* finite batch losses range over 0..MaxLoss
MaxBatchSize == 2   \* a batch has 1..MaxBatchSize examples
MaxWords == 343     \* the reviews given to predict_sentiment have 0..MaxWords words

(* --------------------------- program constants ------------------------- *)
\* the values bert-base-uncased gives them
max_input_length == 512
init_token_idx == 101
eos_token_idx == 102
unk_token_idx == 100

(* ------------------------------ floats --------------------------------- *)
(* A Python float that is a loss or an accuracy: a non-negative rational   *)
(* num/den in lowest terms, +inf, or NaN.  Arithmetic is exact.            *)
RECURSIVE Gcd(_, _)
Gcd(a, b) == IF b = 0 THEN a ELSE Gcd(b, a % b)

\* the float n/d, for d > 0
Frac(n, d) == [k |-> "fin", num |-> n \div Gcd(n, d), den |-> d \div Gcd(n, d)]

Fin(n) == Frac(n, 1)
Inf == [k |-> "inf", num |-> 0, den |-> 1]
NaN == [k |-> "nan", num |-> 0, den |-> 1]

\* a + b of floats (no negative values occur, so inf + inf = inf)
FAdd(a, b) ==
  IF a.k = "nan" \/ b.k = "nan" THEN NaN
  ELSE IF a.k = "inf" \/ b.k = "inf" THEN Inf
  ELSE Frac(a.num * b.den + b.num * a.den, a.den * b.den)

\* a / n for an integer n > 0
FDiv(a, n) ==
  IF a.k = "fin" THEN Frac(a.num, a.den * n) ELSE a

\* a < b of floats: every comparison with NaN is False
FLt(a, b) ==
  IF a.k = "nan" \/ b.k = "nan" THEN FALSE
  ELSE IF a.k = "inf" THEN FALSE
  ELSE IF b.k = "inf" THEN TRUE
  ELSE a.num * b.den < b.num * a.den

\* a == b of floats
FEq(a, b) ==
  IF a.k = "nan" \/ b.k = "nan" THEN FALSE
  ELSE IF a.k = "inf" \/ b.k = "inf" THEN a.k = b.k
  ELSE a.num * b.den = b.num * a.den

\* a <= b of floats
FLe(a, b) == FLt(a, b) \/ FEq(a, b)

\* what loss.item() of one batch can be
BatchLosses == {Fin(n) : n \in 0..MaxLoss} \cup {Inf, NaN}

\* the logits and the labels of the examples of a batch
Logits == {-1, 0, 5}
Labels == {0, 1}

\* torch.round(torch.sigmoid(p)): sigmoid(0) = 0.5 rounds to the even 0
RoundSigmoid(p) == IF p > 0 THEN 1 ELSE 0

\* binary_accuracy(preds, y): the share of the examples whose rounded
\* prediction equals the label
BinaryAccuracy(preds, y) ==
  Frac(Cardinality({i \in 1..Len(preds) : RoundSigmoid(preds[i]) = y[i]}), Len(preds))

\* what acc.item() of one batch can be
BatchAccs ==
  UNION {{BinaryAccuracy(p, y) : p \in [1..B -> Logits], y \in [1..B -> Labels]} :
           B \in 1..MaxBatchSize}

(* ------------------------------ the model ------------------------------ *)
Modules == {"bert", "rnn", "out", "dropout"}
\* named_parameters(): <<module, tensor>>; name.startswith('bert') is name[1] = "bert"
ParamNames == {<<"bert", "weight">>, <<"rnn", "weight">>, <<"out", "weight">>}
\* The content of a parameter tensor is identified by the number of optimizer
\* updates that produced it: 0 is the content at construction.

VARIABLES
  pc,             \* position in the script
  N_EPOCHS,       \* number of epochs of the run (2 in the script; an input here)
  n_train,        \* len(train_iterator)
  n_valid,        \* len(valid_iterator); the test iterator is given the same length
  requires_grad,  \* ParamNames -> BOOLEAN
  value,          \* ParamNames -> content of the parameter tensor
  grad,           \* ParamNames -> <<>> (None) or <<set of batches that contributed>>
  opt_params,     \* the parameters handed to optim.Adam
  training,       \* Modules -> BOOLEAN, nn.Module.training
  grad_enabled,   \* torch.is_grad_enabled()
  tracked,        \* modules whose last forward pass recorded an autograd graph
  epoch,          \* index of the next iteration of the epoch loop
  batch,          \* index of the current batch of the running pass (1-based)
  stage,          \* next statement of the train loop body
  eval_kind,      \* which iterator evaluate() is running on
  loss, acc,                          \* loss.item() and acc.item() of the current batch
  epoch_loss, epoch_acc,              \* accumulators of train()/evaluate()
  valid_loss,     \* result of the validation pass (the other results are only printed)
  best_valid_loss,
  model_pt,       \* what is stored under the name 'model.pt': a sequence of state dicts
  sentence,       \* the review predict_sentiment is called on
  tensor,         \* predict_sentiment: the batch fed to the model, a sequence of id rows
  \* history variables
  trace,          \* statements of the train loop body executed for the current batch
  opt_steps,      \* optimizer steps taken in the current epoch
  seen_losses,    \* validation losses of the epochs so far
  saved_losses,   \* validation loss of every torch.save so far
  writes,         \* torch.save calls in the current epoch
  reads,          \* successful torch.load calls
  last_epoch_value, \* the parameters as the epoch loop left them
  mutated_by      \* the statement that last changed a parameter value

vars == <<pc, N_EPOCHS, n_train, n_valid, requires_grad, value, grad, opt_params,
          training, grad_enabled, tracked, epoch, batch, stage, eval_kind,
          loss, acc, epoch_loss, epoch_acc, valid_loss,
          best_valid_loss, model_pt, sentence, tensor,
          trace, opt_steps, seen_losses, saved_losses, writes, reads,
          last_epoch_value, mutated_by>>

inputVars == <<N_EPOCHS, n_train, n_valid, sentence>>
flagVars == <<requires_grad, opt_params>>
passVars == <<loss, acc, epoch_loss, epoch_acc>>
resultVars == <<valid_loss>>
ckptVars == <<best_valid_loss, model_pt, saved_losses, seen_losses, writes>>
inferVars == <<tensor>>

(* ------------------------------ tokenizer ------------------------------ *)
(* BertTokenizer is a library; it is modelled by a table over a few words: *)
(* it lower-cases, splits punctuation off into tokens of its own, and      *)
(* WordPiece turns a word of more than 100 characters into the unknown     *)
(* token.  Every token it returns is in the vocabulary.                    *)
\* a word of 101 characters
LongWord == "zzzzzzzzzzzzzzzzzzzzzzzzzzzzzzzzzzzzzzzzzzzzzzzzzzzzzzzzzzzzzzzzzzzzzzzzzzzzzzzzzzzzzzzzzzzzzzzzzzzzz"
Words == {"WORLD", "great!", LongWord}

\* tokenizer.tokenize of one word of Words
TokenizeWord(w) ==
  CASE w = "WORLD" -> <<"world">>
    [] w = "great!" -> <<"great", "!">>
    [] w = LongWord -> <<"[UNK]">>

\* tokenizer.tokenize(sentence), a sentence being a sequence of words: the
\* tokens of its words in order (computed by halves)
RECURSIVE Tokenize(_)
Tokenize(text) ==
  IF text = <<>> THEN <<>>
  ELSE IF Len(text) = 1 THEN TokenizeWord(text[1])
  ELSE Tokenize(SubSeq(text, 1, Len(text) \div 2))
         \o Tokenize(SubSeq(text, Len(text) \div 2 + 1, Len(text)))

\* tokenizer.convert_tokens_to_ids of one token
TokenId(t) ==
  CASE t = "world" -> 2088
    [] t = "great" -> 2307
    [] t = "!" -> 999
    [] t = "[UNK]" -> unk_token_idx
    [] OTHER -> unk_token_idx

\* tokenizer.convert_tokens_to_ids(tokens)
ConvertTokensToIds(tokens) == [i \in 1..Len(tokens) |-> TokenId(tokens[i])]

\* Slice without the cut
Slice_all(tokens, n) == tokens

\* tokens[:n] of Python for n >= 0
Slice(tokens, n) == SubSeq(tokens, 1, IF Len(tokens) < n THEN Len(tokens) ELSE n)

\* predict_sentiment, the lines that build the id list
Indexed(text) ==
  <<init_token_idx>>
    \o ConvertTokensToIds(Slice(Tokenize(text), max_input_length - 2))
    \o <<eos_token_idx>>

\* the sentences tried: k words that alternate, starting with either word,
\* so that every token count from 0 to beyond max_input_length occurs
SentenceOf(k, first) ==
  [i \in 1..k |-> IF (i + first) % 2 = 0 THEN "WORLD" ELSE "great!"]
Sentences == {SentenceOf(k, f) : k \in 0..MaxWords, f \in {0, 1}} \cup {<<LongWord>>}
ShortSentences == {<<>>, <<LongWord, "great!">>}

(* --------------------------- torch operations -------------------------- *)
\* nn.Module.train() / nn.Module.eval() on the whole model: every submodule
SetMode(mode) == [m \in Modules |-> mode]

\* BERTGRUSentiment.forward: the encoder runs under torch.no_grad(), the GRU,
\* the dropout and the linear layer record a graph when autograd is enabled
Forward(ge) == IF ge THEN {"rnn", "dropout", "out"} ELSE {}

\* ZeroGrad that leaves the gradients in place
ZeroGrad_keep(g, params) == g

\* optimizer.zero_grad(): the gradient of every parameter of the optimizer is dropped
ZeroGrad(g, params) == [p \in ParamNames |-> IF p \in params THEN <<>> ELSE g[p]]

\* loss.backward() for batch b: a parameter that requires grad and whose module
\* recorded a graph gets the batch's gradient added to its .grad
Backward(g, rg, tr, b) ==
  [p \in ParamNames |->
     IF rg[p] /\ p[1] \in tr
     THEN IF g[p] = <<>> THEN <<{b}>> ELSE <<g[p][1] \cup {b}>>
     ELSE g[p]]

\* AdamStep that updates every parameter it was given
AdamStep_all(val, g, params) ==
  [p \in ParamNames |-> IF p \in params THEN val[p] + 1 ELSE val[p]]

\* optimizer.step(): Adam updates the parameters of the optimizer that have a
\* gradient and skips the others
AdamStep(val, g, params) ==
  [p \in ParamNames |-> IF p \in params /\ g[p] # <<>> THEN val[p] + 1 ELSE val[p]]

\* Improved with <= for <
Improved_le(valid, best) == FLe(valid, best)

\* the comparison of the epoch loop
Improved(valid, best) == FLt(valid, best)

\* TorchSave that keeps the earlier snapshots
TorchSave_keep(files, sd) == Append(files, sd)

\* torch.save(state_dict, 'model.pt'): the file is replaced
TorchSave(files, sd) == <<sd>>

\* LoadStateDict that copies nothing
LoadStateDict_none(val, sd) == val

\* model.load_state_dict(sd): every parameter takes the stored content
LoadStateDict(val, sd) == [p \in ParamNames |-> sd[p]]

(* ------------------------------- the script ---------------------------- *)
(* Init is the state after the BERTGRUSentiment constructor returned: the  *)
(* pretrained encoder comes in evaluation mode with trainable parameters,  *)
(* the new modules are in training mode.  A variable the script has not    *)
(* bound yet holds a placeholder.  The inputs of the run are drawn here:   *)
(* the number of epochs from E, the lengths of the iterators from BT and   *)
(* BV, the review from S.                                                  *)
InitWith(E, BT, BV, S) ==
  /\ pc = "freeze"
  /\ N_EPOCHS \in E
  /\ n_train \in BT
  /\ n_valid \in BV
  /\ sentence \in S
  /\ requires_grad = [p \in ParamNames |-> TRUE]
  /\ value = [p \in ParamNames |-> 0]
  /\ grad = [p \in ParamNames |-> <<>>]
  /\ opt_params = {}
  /\ training = [m \in Modules |-> m # "bert"]
  /\ grad_enabled = TRUE
  /\ tracked = {}
  /\ epoch = 0
  /\ batch = 0
  /\ stage = "none"
  /\ eval_kind = "none"
  /\ loss = Fin(0) /\ acc = Fin(0)
  /\ epoch_loss = Fin(0) /\ epoch_acc = Fin(0)
  /\ valid_loss = Fin(0)
  /\ best_valid_loss = Fin(0)
  /\ model_pt = <<>>
  /\ tensor = <<>>
  /\ trace = <<>>
  /\ opt_steps = 0
  /\ seen_losses = <<>>
  /\ saved_losses = <<>>
  /\ writes = 0
  /\ reads = 0
  /\ last_epoch_value = [p \in ParamNames |-> 0]
  /\ mutated_by = "none"

\* the two freezing loops
Freeze ==
  /\ pc = "freeze"
  /\ requires_grad' = [p \in ParamNames |-> IF p[1] = "bert" THEN FALSE ELSE requires_grad[p]]
  /\ pc' = "setup"
  /\ UNCHANGED <<inputVars, value, grad, opt_params, training, grad_enabled, tracked,
                 epoch, batch, stage, eval_kind, passVars, resultVars, ckptVars,
                 inferVars, trace, opt_steps, reads, last_epoch_value, mutated_by>>

\* optimizer = optim.Adam(model.parameters()) ... best_valid_loss = float('inf')
Setup ==
  /\ pc = "setup"
  /\ opt_params' = ParamNames
  /\ best_valid_loss' = Inf
  /\ pc' = "epoch"
  /\ UNCHANGED <<inputVars, requires_grad, value, grad, training, grad_enabled, tracked,
                 epoch, batch, stage, eval_kind, passVars, resultVars,
                 model_pt, saved_losses, seen_losses, writes,
                 inferVars, trace, opt_steps, reads, last_epoch_value, mutated_by>>

\* for epoch in range(N_EPOCHS): ... train(): the accumulators and model.train()
EpochStart ==
  /\ pc = "epoch"
  /\ epoch < N_EPOCHS
  /\ epoch_loss' = Fin(0)
  /\ epoch_acc' = Fin(0)
  /\ training' = SetMode(TRUE)
  /\ batch' = 1
  /\ stage' = "zero_grad"
  /\ pc' = "train"
  /\ trace' = <<>>
  /\ opt_steps' = 0
  /\ writes' = 0
  /\ UNCHANGED <<inputVars, flagVars, value, grad, grad_enabled, tracked, epoch, eval_kind,
                 loss, acc, resultVars, best_valid_loss, model_pt, saved_losses,
                 seen_losses, inferVars, reads, last_epoch_value, mutated_by>>

\* what the statements of the train loop body leave alone, apart from the model
TrainFrame ==
  UNCHANGED <<inputVars, flagVars, training, grad_enabled, epoch, batch, eval_kind,
              resultVars, ckptVars, inferVars, reads, last_epoch_value, pc>>

\* optimizer.zero_grad()
TrainZeroGrad ==
  /\ pc = "train" /\ stage = "zero_grad"
  /\ grad' = ZeroGrad(grad, opt_params)
  /\ stage' = "forward"
  /\ trace' = <<"zero_grad">>
  /\ TrainFrame
  /\ UNCHANGED <<value, tracked, passVars, opt_steps, mutated_by>>

\* predictions = model(text).squeeze(1)
TrainForward ==
  /\ pc = "train" /\ stage = "forward"
  /\ tracked' = Forward(grad_enabled)
  /\ stage' = "loss"
  /\ trace' = Append(trace, "forward")
  /\ TrainFrame
  /\ UNCHANGED <<value, grad, passVars, opt_steps, mutated_by>>

\* loss = criterion(predictions, labels.float())
TrainLoss ==
  /\ pc = "train" /\ stage = "loss"
  /\ \E l \in BatchLosses : loss' = l
  /\ stage' = "acc"
  /\ trace' = Append(trace, "loss")
  /\ TrainFrame
  /\ UNCHANGED <<value, grad, tracked, acc, epoch_loss, epoch_acc, opt_steps, mutated_by>>

\* acc = binary_accuracy(predictions, labels)
TrainAcc ==
  /\ pc = "train" /\ stage = "acc"
  /\ \E a \in BatchAccs : acc' = a
  /\ stage' = "backward"
  /\ trace' = Append(trace, "acc")
  /\ TrainFrame
  /\ UNCHANGED <<value, grad, tracked, loss, epoch_loss, epoch_acc, opt_steps, mutated_by>>

\* loss.backward()
TrainBackward ==
  /\ pc = "train" /\ stage = "backward"
  /\ grad' = Backward(grad, requires_grad, tracked, <<epoch, batch>>)
  /\ stage' = "step"
  /\ trace' = Append(trace, "backward")
  /\ TrainFrame
  /\ UNCHANGED <<value, tracked, passVars, opt_steps, mutated_by>>

\* optimizer.step()
TrainStep ==
  /\ pc = "train" /\ stage = "step"
  /\ value' = AdamStep(value, grad, opt_params)
  /\ mutated_by' = IF value' # value THEN "optimizer.step" ELSE mutated_by
  /\ opt_steps' = opt_steps + 1
  /\ stage' = "accum"
  /\ trace' = Append(trace, "step")
  /\ TrainFrame
  /\ UNCHANGED <<grad, tracked, passVars>>

\* epoch_loss += loss.item(); epoch_acc += acc.item(); then the next batch
TrainAccum ==
  /\ pc = "train" /\ stage = "accum"
  /\ epoch_loss' = FAdd(epoch_loss, loss)
  /\ epoch_acc' = FAdd(epoch_acc, acc)
  /\ trace' = Append(trace, "accum")
  /\ IF batch < n_train
     THEN /\ batch' = batch + 1
          /\ stage' = "zero_grad"
     ELSE /\ batch' = batch
          /\ stage' = "return"
  /\ UNCHANGED <<inputVars, flagVars, value, grad, training, grad_enabled, tracked,
                 epoch, eval_kind, loss, acc, resultVars, ckptVars, inferVars,
                 reads, last_epoch_value, pc, opt_steps, mutated_by>>

\* return epoch_loss / len(iterator), ... (train_loss and train_acc are only
\* printed); the epoch loop goes on to evaluate()
TrainReturn ==
  /\ pc = "train" /\ stage = "return"
  /\ stage' = "none"
  /\ eval_kind' = "valid"
  /\ pc' = "evaluate"
  /\ UNCHANGED <<inputVars, flagVars, value, grad, training, grad_enabled, tracked,
                 epoch, batch, passVars, valid_loss, ckptVars, inferVars,
                 trace, opt_steps, reads, last_epoch_value, mutated_by>>

\* evaluate(): the accumulators, model.eval(), with torch.no_grad():
EvaluateStart ==
  /\ pc = "evaluate"
  /\ epoch_loss' = Fin(0)
  /\ epoch_acc' = Fin(0)
  /\ training' = SetMode(FALSE)
  /\ grad_enabled' = FALSE
  /\ batch' = 1
  /\ pc' = "eval_batch"
  /\ UNCHANGED <<inputVars, flagVars, value, grad, tracked, epoch, stage, eval_kind,
                 loss, acc, resultVars, ckptVars, inferVars, trace, opt_steps, reads,
                 last_epoch_value, mutated_by>>

\* EvaluateBatch with an optimizer step in it
EvaluateBatch_step ==
  /\ pc = "eval_batch"
  /\ tracked' = Forward(grad_enabled)
  /\ \E l \in BatchLosses, a \in BatchAccs :
       /\ loss' = l
       /\ acc' = a
       /\ epoch_loss' = FAdd(epoch_loss, l)
       /\ epoch_acc' = FAdd(epoch_acc, a)
  /\ value' = AdamStep(value, grad, opt_params)
  /\ IF batch < n_valid
     THEN batch' = batch + 1 /\ pc' = pc
     ELSE batch' = batch /\ pc' = "eval_return"
  /\ UNCHANGED <<inputVars, flagVars, grad, training, grad_enabled, epoch, stage,
                 eval_kind, resultVars, ckptVars, inferVars, trace, opt_steps, reads,
                 last_epoch_value, mutated_by>>

\* the body of evaluate()'s loop for one batch
EvaluateBatch ==
  /\ pc = "eval_batch"
  /\ tracked' = Forward(grad_enabled)
  /\ \E l \in BatchLosses, a \in BatchAccs :
       /\ loss' = l
       /\ acc' = a
       /\ epoch_loss' = FAdd(epoch_loss, l)
       /\ epoch_acc' = FAdd(epoch_acc, a)
  /\ IF batch < n_valid
     THEN batch' = batch + 1 /\ pc' = pc
     ELSE batch' = batch /\ pc' = "eval_return"
  /\ UNCHANGED <<inputVars, flagVars, value, grad, training, grad_enabled, epoch, stage,
                 eval_kind, resultVars, ckptVars, inferVars, trace, opt_steps, reads,
                 last_epoch_value, mutated_by>>

\* the no_grad block ends; return epoch_loss / len(iterator), ...
EvaluateReturn ==
  /\ pc = "eval_return"
  /\ grad_enabled' = TRUE
  /\ IF eval_kind = "valid"
     THEN /\ valid_loss' = FDiv(epoch_loss, n_valid)
          /\ pc' = "epoch_end"
     ELSE /\ valid_loss' = valid_loss
          /\ pc' = "infer"
  /\ UNCHANGED <<inputVars, flagVars, value, grad, training, tracked, epoch, batch, stage,
                 eval_kind, passVars, ckptVars, inferVars, trace, opt_steps,
                 reads, last_epoch_value, mutated_by>>

\* if valid_loss < best_valid_loss: ... torch.save(...); the prints; next iteration
EpochEnd ==
  /\ pc = "epoch_end"
  /\ IF Improved(valid_loss, best_valid_loss)
     THEN /\ best_valid_loss' = valid_loss
          /\ model_pt' = TorchSave(model_pt, value)
          /\ saved_losses' = Append(saved_losses, valid_loss)
          /\ writes' = writes + 1
     ELSE UNCHANGED <<best_valid_loss, model_pt, saved_losses, writes>>
  /\ seen_losses' = Append(seen_losses, valid_loss)
  /\ last_epoch_value' = value
  /\ epoch' = epoch + 1
  /\ pc' = "epoch"
  /\ UNCHANGED <<inputVars, flagVars, value, grad, training, grad_enabled, tracked, batch,
                 stage, eval_kind, passVars, resultVars, inferVars, trace, opt_steps,
                 reads, mutated_by>>

\* range(N_EPOCHS) is exhausted
LoopExit ==
  /\ pc = "epoch"
  /\ epoch >= N_EPOCHS
  /\ pc' = "load"
  /\ UNCHANGED <<inputVars, flagVars, value, grad, training, grad_enabled, tracked, epoch,
                 batch, stage, eval_kind, passVars, resultVars, ckptVars, inferVars,
                 trace, opt_steps, reads, last_epoch_value, mutated_by>>

\* model.load_state_dict(torch.load('model.pt')); torch.load raises when
\* there is no file, and the script stops
Load ==
  /\ pc = "load"
  /\ IF model_pt = <<>>
     THEN /\ pc' = "error"
          /\ UNCHANGED <<value, reads, eval_kind, mutated_by>>
     ELSE /\ value' = LoadStateDict(value, model_pt[Len(model_pt)])
          /\ mutated_by' = IF value' # value THEN "load_state_dict" ELSE mutated_by
          /\ reads' = reads + 1
          /\ eval_kind' = "test"
          /\ pc' = "evaluate"
  /\ UNCHANGED <<inputVars, flagVars, grad, training, grad_enabled, tracked, epoch, batch,
                 stage, passVars, resultVars, ckptVars, inferVars, trace, opt_steps,
                 last_epoch_value>>

\* predict_sentiment(model, tokenizer, sentence)
PredictSentiment ==
  /\ pc = "infer"
  /\ training' = SetMode(FALSE)
  /\ tensor' = <<Indexed(sentence)>>
  /\ tracked' = Forward(grad_enabled)
  /\ UNCHANGED <<inputVars, flagVars, value, grad, grad_enabled, epoch, batch, stage,
                 eval_kind, passVars, resultVars, ckptVars, trace, opt_steps, reads,
                 last_epoch_value, mutated_by, pc>>

Init == InitWith(1..MaxEpochs, 1..MaxTrainBatches, 1..MaxValidBatches, ShortSentences)

Next ==
  \/ Freeze
  \/ Setup
  \/ EpochStart
  \/ TrainZeroGrad
  \/ TrainForward
  \/ TrainLoss
  \/ TrainAcc
  \/ TrainBackward
  \/ TrainStep
  \/ TrainAccum
  \/ TrainReturn
  \/ EvaluateStart
  \/ EvaluateBatch
  \/ EvaluateReturn
  \/ EpochEnd
  \/ LoopExit
  \/ Load
  \/ PredictSentiment

\* the whole script, for every number of epochs and of batches up to the
\* bounds and every short review
Spec == Init /\ [][Next]_vars

\* the script with one epoch and one batch per iterator, for every review of
\* Sentences
InitInfer == InitWith({1}, {1}, {1}, Sentences)

SpecInfer == InitInfer /\ [][Next]_vars

(* ------------------------------- properties ---------------------------- *)
HeadParams == {p \in ParamNames : p[1] # "bert"}
EncoderParams == {p \in ParamNames : p[1] = "bert"}
Min(a, b) == IF a < b THEN a ELSE b
IsPrefix(u, v) == Len(u) <= Len(v) /\ u = SubSeq(v, 1, Len(u))
\* the positions of evaluate()
EvalPcs == {"evaluate", "eval_batch", "eval_return"}
\* the positions of the epoch loop
InEpochLoop ==
  \/ pc \in {"train", "epoch_end"}
  \/ pc = "epoch" /\ epoch < N_EPOCHS
  \/ pc \in EvalPcs /\ eval_kind = "valid"
\* the positions of the final test evaluation
InTest == pc \in EvalPcs /\ eval_kind = "test"
\* predict_sentiment has been called
Predicted == pc = "infer" /\ tensor # <<>>

\* C1: the running best starts at +inf, and the step that ends an epoch writes
\* the checkpoint (the current parameters) and sets the running best to the
\* epoch's validation loss exactly when that loss is strictly less than the
\* running best; otherwise checkpoint and running best stay as they are.
C1_SaveIffStrictlyBetter ==
  /\ [](pc = "epoch" /\ epoch = 0 => best_valid_loss = Inf)
  /\ [][pc = "epoch_end" =>
          IF FLt(valid_loss, best_valid_loss)
          THEN /\ writes' = writes + 1
               /\ model_pt'[Len(model_pt')] = value
               /\ best_valid_loss' = valid_loss
          ELSE /\ writes' = writes
               /\ model_pt' = model_pt
               /\ best_valid_loss' = best_valid_loss]_vars

\* an epoch whose loss equals the running best ended without a write
W_C1 ==
  /\ pc = "epoch"
  /\ Len(seen_losses) = 2
  /\ FEq(seen_losses[2], seen_losses[1])
  /\ Len(saved_losses) = 1
  /\ writes = 0

\* C2: the losses of the successive checkpoint writes are non-increasing, and
\* after every epoch the stored checkpoint's loss is the minimum of the
\* validation losses seen so far.
C2_CheckpointIsMinimum ==
  /\ \A i \in 1..Len(saved_losses) : \A j \in i..Len(saved_losses) :
        FLe(saved_losses[j], saved_losses[i])
  /\ (pc = "epoch" /\ epoch >= 1) =>
        /\ model_pt # <<>>
        /\ saved_losses # <<>>
        /\ \A i \in 1..Len(seen_losses) :
              FLe(saved_losses[Len(saved_losses)], seen_losses[i])
        /\ \E i \in 1..Len(seen_losses) :
              FEq(saved_losses[Len(saved_losses)], seen_losses[i])

\* C3: at most one write per epoch; at most one read, and only after the last
\* epoch; the test evaluation runs after exactly one read, on parameters equal
\* to the checkpoint, whose loss is the running best and is not beaten by any
\* epoch's loss.
C3_RestoreOnceBeforeTest ==
  /\ writes <= 1
  /\ reads <= 1
  /\ reads = 1 => epoch = N_EPOCHS /\ (InTest \/ pc = "infer")
  /\ (InTest \/ pc = "infer") =>
        /\ reads = 1
        /\ model_pt # <<>>
        /\ value = model_pt[Len(model_pt)]
        /\ saved_losses[Len(saved_losses)] = best_valid_loss
        /\ \A i \in 1..Len(seen_losses) : ~FLt(seen_losses[i], best_valid_loss)

\* the test evaluation runs on restored parameters that differ from those the
\* last epoch left
W_C3 ==
  /\ InTest
  /\ pc = "eval_return"
  /\ reads = 1
  /\ value # last_epoch_value
  /\ value = model_pt[1]

\* C4 as stated: from the state the constructor leaves on, every encoder
\* parameter has requires_grad false; every head parameter has it true; no
\* encoder parameter ever gets a gradient or a new content.
C4_EncoderFrozenFromConstruction ==
  /\ \A p \in EncoderParams : ~requires_grad[p]
  /\ \A p \in HeadParams : requires_grad[p]
  /\ \A p \in EncoderParams : value[p] = 0 /\ grad[p] = <<>>

\* C4 as amended: once the freezing loops that follow the constructor have
\* run, every encoder parameter has requires_grad false, and it stays false;
\* every head parameter has it true at all times; no encoder parameter ever
\* gets a gradient or a new content.
C4_EncoderFrozen ==
  /\ pc # "freeze" => \A p \in EncoderParams : ~requires_grad[p]
  /\ \A p \in HeadParams : requires_grad[p]
  /\ \A p \in EncoderParams : value[p] = 0 /\ grad[p] = <<>>

\* two epochs were trained, the checkpoint restored, the test set evaluated and
\* predict_sentiment called, and the head was updated
W_C4 ==
  /\ Predicted
  /\ epoch = 2
  /\ reads = 1
  /\ \A p \in HeadParams : value[p] > 0
  /\ \A p \in EncoderParams : ~requires_grad[p]

\* C5 as stated: a parameter value changes only in the optimizer step of the
\* training loop.
C5_OnlyOptimizerStepMutates ==
  [][value' # value => pc = "train" /\ stage = "step"]_vars

\* C5 as amended: a parameter value changes only in the optimizer step of the
\* training loop or in the checkpoint restore; evaluation and inference change
\* no parameter value and take no optimizer step.
C5_OnlyStepAndRestoreMutate ==
  [][/\ value' # value => (pc = "train" /\ stage = "step") \/ pc = "load"
     /\ pc \in EvalPcs \cup {"infer"} => value' = value /\ opt_steps' = opt_steps
    ]_vars

\* the restore changed the parameters, then the test evaluation and
\* predict_sentiment ran
W_C5 ==
  /\ Predicted
  /\ mutated_by = "load_state_dict"
  /\ value # last_epoch_value

\* C6: the ids predict_sentiment feeds to the model are the begin marker, the
\* ids of the first min(n, max_input_length - 2) tokens of the review, and the
\* end marker, n being the number of tokens of the review; more than
\* max_input_length - 2 tokens give max_input_length ids, the empty review gives
\* the two markers, and the call does not fail.
C6_TruncatedAndWrapped ==
  Predicted =>
    LET tokens == Tokenize(sentence)
        m == Min(Len(tokens), max_input_length - 2)
        ids == tensor[1]
    IN /\ Len(ids) = m + 2
       /\ ids[1] = init_token_idx
       /\ ids[m + 2] = eos_token_idx
       /\ \A i \in 1..m : ids[i + 1] = TokenId(tokens[i])
       /\ Len(tokens) > max_input_length - 2 => Len(ids) = max_input_length
       /\ sentence = <<>> => ids = <<init_token_idx, eos_token_idx>>

\* predict_sentiment was called on a review of more than max_input_length - 2
\* tokens
W_C6 ==
  /\ Predicted
  /\ Len(Tokenize(sentence)) > max_input_length - 2
  /\ Len(tensor[1]) = max_input_length

\* C7: a predict_sentiment call runs every module in evaluation mode, records
\* no autograd graph in any module, and feeds a batch of one example.
C7_InferenceEvalNoGrad ==
  Predicted =>
    /\ \A m \in Modules : ~training[m]
    /\ tracked = {}
    /\ Len(tensor) = 1

\* C8 as stated: in every state of the epoch loop the checkpoint slot holds
\* exactly one snapshot.
C8_ExactlyOneCheckpoint ==
  InEpochLoop => Len(model_pt) = 1

\* C8 as amended: the checkpoint slot is empty until the first write and holds
\* exactly one snapshot from then on, however many writes there were.
C8_AtMostOneCheckpoint ==
  Len(model_pt) = IF saved_losses = <<>> THEN 0 ELSE 1

\* the checkpoint was written twice and the slot holds one snapshot
W_C8 ==
  /\ Len(saved_losses) = 2
  /\ Len(model_pt) = 1

\* C9: a run of one epoch has written the checkpoint exactly once when the
\* epoch loop is over, and the restore does not fail.
C9_OneEpochWritesOnce ==
  (N_EPOCHS = 1 /\ epoch = 1) =>
     /\ Len(saved_losses) = 1
     /\ Len(model_pt) = 1
     /\ pc # "error"

\* the statements of the train loop body, in order
BatchOrder == <<"zero_grad", "forward", "loss", "acc", "backward", "step", "accum">>

\* C10: during train() every module is in training mode; the statements run
\* for a batch are a prefix of BatchOrder, all of it once the batch is
\* accumulated; the optimizer steps of the epoch number the batches done, and
\* all of them when the validation pass runs; at the optimizer step of a batch
\* every gradient present is that batch's alone.
C10_TrainOrder ==
  /\ pc = "train" => \A m \in Modules : training[m]
  /\ pc = "train" =>
        /\ IsPrefix(trace, BatchOrder)
        /\ batch \in 1..n_train
        /\ stage = "return" => trace = BatchOrder /\ batch = n_train
        /\ stage = "zero_grad" => trace \in {<<>>, BatchOrder}
        /\ opt_steps = IF stage \in {"accum", "return"} THEN batch ELSE batch - 1
  /\ (pc \in EvalPcs \cup {"epoch_end"} /\ eval_kind = "valid") => opt_steps = n_train
  /\ (pc = "train" /\ stage = "step") =>
        \A p \in ParamNames : grad[p] = <<>> \/ grad[p] = <<{<<epoch, batch>>}>>

\* the optimizer step of a second batch is about to run on that batch's
\* gradient
W_C10 ==
  /\ pc = "train"
  /\ stage = "step"
  /\ batch = 2
  /\ \A p \in HeadParams : grad[p] = <<{<<epoch, 2>>}>>
  /\ opt_steps = 1

====
